---- MODULE Spec2Model ----
(***************************************************************************)
(* A model of the commodity library (src/src/commodity.rs): commodity type *)
(* ids, commodities (a decimal value tagged with a type id), their checked *)
(* arithmetic and comparisons, divide_share, and the textual forms; and of  *)
(* the exchange rate table (src/src/exchange_rate/mod.rs).                 *)
(*                                                                         *)
(* A rust_decimal::Decimal is the record [m |-> mantissa, e |-> scale]     *)
(* standing for m * 10^-e.  Decimal equality and ordering are numeric      *)
(* (1.0 = 1.00); Display and from_str keep the scale.                      *)
(* A string is a sequence of one-character strings.                        *)
(***************************************************************************)
EXTENDS Integers, Sequences, FiniteSets, TLC

VARIABLES a, b, op, arg, res, prev, text, exchange_rate

vars == <<a, b, op, arg, res, prev, text, exchange_rate>>

(***************************************************************************)
(* Bounds of the model.                                                    *)
(***************************************************************************)
\* largest mantissa magnitude of the commodities of the arithmetic specification
MaxMant == 2
\* largest scale (number of fractional digits) of an input decimal
MaxScale == 1
\* fractional digits a decimal quotient is carried to before it is rounded
\* (28 in rust_decimal; scaled down to keep mantissas small)
MaxDivScale == 4
\* largest mantissa magnitude and scale of the commodities that are split
MaxShareMant == 425
MaxShareScale == 2
\* largest number of shares, and largest precision dp, asked of divide_share
MaxShares == 4
MaxDp == 2
\* longest string given to CommodityTypeID::from_str
MaxTextLen == 9
\* largest mantissa magnitude, and longest id, of the commodities displayed
MaxTextMant == 12
MaxIdLen == 2
MaxParseLen == 4
MaxNameLen == 2
MaxRate == 3
MaxDivisor == 4

(***************************************************************************)
(* Integer helpers.                                                        *)
(***************************************************************************)
Max(x, y) == IF x >= y THEN x ELSE y

Abs(x) == IF x < 0 THEN -x ELSE x

\* i64::signum
Signum(x) == IF x > 0 THEN 1 ELSE IF x < 0 THEN -1 ELSE 0

RECURSIVE Pow10(_)
Pow10(k) == IF k <= 0 THEN 1 ELSE 10 * Pow10(k - 1)

\* integer quotient truncated toward zero
TruncQuot(x, y) == Signum(x) * Signum(y) * (Abs(x) \div Abs(y))

\* integer remainder with the sign of the dividend
TruncRem(x, y) == x - y * TruncQuot(x, y)

(***************************************************************************)
(* The decimal layer (rust_decimal::Decimal, used by commodity.rs).        *)
(***************************************************************************)
\* Decimal::new(num, scale) = num * 10^-scale
Decimal_new(num, scale) == [m |-> num, e |-> scale]

\* the mantissa of d written at scale E >= d.e
Rescale(d, E) == d.m * Pow10(E - d.e)

\* Decimal + Decimal: exact, at the larger scale
DecAdd(x, y) ==
    LET E == Max(x.e, y.e) IN Decimal_new(Rescale(x, E) + Rescale(y, E), E)

\* Decimal - Decimal: exact, at the larger scale
DecSub(x, y) ==
    LET E == Max(x.e, y.e) IN Decimal_new(Rescale(x, E) - Rescale(y, E), E)

\* -Decimal
DecNeg(x) == Decimal_new(-x.m, x.e)

\* Decimal::abs
DecAbs(x) == Decimal_new(Abs(x.m), x.e)

\* Decimal == Decimal (numeric: the scale is not compared)
DecEq(x, y) == LET E == Max(x.e, y.e) IN Rescale(x, E) = Rescale(y, E)

\* Decimal < Decimal
DecLt(x, y) == LET E == Max(x.e, y.e) IN Rescale(x, E) < Rescale(y, E)

\* Decimal > Decimal
DecGt(x, y) == LET E == Max(x.e, y.e) IN Rescale(x, E) > Rescale(y, E)

\* Decimal <= Decimal
DecLe(x, y) == LET E == Max(x.e, y.e) IN Rescale(x, E) <= Rescale(y, E)

\* Decimal * Decimal: exact, the scales add
DecMul(x, y) == Decimal_new(x.m * y.m, x.e + y.e)

\* Decimal % Decimal, y # 0: the remainder of the truncated division, with
\* the sign of the dividend, at the larger scale
DecRem(x, y) ==
    LET E == Max(x.e, y.e)
    IN Decimal_new(TruncRem(Rescale(x, E), Rescale(y, E)), E)

\* the fraction n / d with the powers of ten common to n and d cancelled
RECURSIVE Cancel10(_, _)
Cancel10(n, d) ==
    IF n # 0 /\ n % 10 = 0 /\ d % 10 = 0
    THEN Cancel10(n \div 10, d \div 10)
    ELSE <<n, d>>

\* <<the integer part of n * 10^k / d, the remainder>> for n >= 0, d > 0,
\* one digit at a time
RECURSIVE LongDivision(_, _, _)
LongDivision(n, d, k) ==
    IF k = 0 THEN <<n \div d, n % d>>
    ELSE LET p == LongDivision(n, d, k - 1)
         IN <<p[1] * 10 + (p[2] * 10) \div d, (p[2] * 10) % d>>

\* n * 10^k / d (d > 0) rounded to the nearest integer, a tie to the even
\* one
RoundHalfEven(n, d, k) ==
    LET p == LongDivision(Abs(n), d, k)
        up == 2 * p[2] > d \/ (2 * p[2] = d /\ p[1] % 2 = 1)
    IN Signum(n) * (IF up THEN p[1] + 1 ELSE p[1])

\* the decimal without its trailing fractional zeros
RECURSIVE Normalize(_)
Normalize(d) ==
    IF d.e > 0 /\ d.m % 10 = 0
    THEN Normalize(Decimal_new(d.m \div 10, d.e - 1))
    ELSE d

\* Decimal / Decimal, y # 0: the quotient carried to MaxDivScale fractional
\* digits and rounded there; exact when it has no more digits than that
DecDiv(x, y) ==
    LET n0 == x.m * Pow10(Max(y.e - x.e, 0))
        d0 == y.m * Pow10(Max(x.e - y.e, 0))
        f == Cancel10(n0 * Signum(d0), Abs(d0))
    IN Normalize(Decimal_new(RoundHalfEven(f[1], f[2], MaxDivScale),
                             MaxDivScale))

\* Decimal::trunc: the integral part, toward zero
DecTrunc(x) == Decimal_new(TruncQuot(x.m, Pow10(x.e)), 0)

\* ToPrimitive::to_i64: the integral part as an integer
DecToI64(x) == TruncQuot(x.m, Pow10(x.e))

(***************************************************************************)
(* Results: Ok(value), Err(error) and a panic (the call aborts).           *)
(***************************************************************************)
Ok(v) == [kind |-> "Ok", val |-> v]

Err(e) == [kind |-> "Err", err |-> e]

Panic(why) == [kind |-> "Panic", why |-> why]

None == [kind |-> "None"]

Some(v) == [kind |-> "Some", val |-> v]

(***************************************************************************)
(* CommodityTypeID: an id kept in an ArrayString of fixed capacity, a      *)
(* buffer of COMMODITY_TYPE_ID_LENGTH bytes and the length in use.         *)
(***************************************************************************)
COMMODITY_TYPE_ID_LENGTH == 8

\* what an unused byte of the buffer holds
NUL == "NUL"

\* ArrayString::from: the bytes are copied into the buffer, or a
\* CapacityError when they do not fit
ArrayString_from(s) ==
    IF Len(s) > COMMODITY_TYPE_ID_LENGTH
    THEN Err([error |-> "CapacityError"])
    ELSE Ok([buf |-> [k \in 1..COMMODITY_TYPE_ID_LENGTH |->
                         IF k <= Len(s) THEN s[k] ELSE NUL],
             len |-> Len(s)])

\* Display for ArrayString: the bytes in use
ArrayString_display(arr) == [k \in 1..arr.len |-> arr.buf[k]]

\* CommodityTypeID::new
CommodityTypeID_new(id_array) == [id_array |-> id_array]

\* CommodityError::TooLongCommodityTypeID(String)
TooLongCommodityTypeID(id) == [error |-> "TooLongCommodityTypeID", id |-> id]

\* CommodityTypeID::from_str with the length guard off by one (>= for >)
CommodityTypeID_from_str_off_by_one(id) ==
    IF Len(id) >= COMMODITY_TYPE_ID_LENGTH
    THEN Err(TooLongCommodityTypeID(id))
    ELSE LET id_array == ArrayString_from(id)
         IN IF id_array.kind = "Err"
            THEN Panic("unwrap on an Err value")
            ELSE Ok(CommodityTypeID_new(id_array.val))

\* CommodityTypeID::from_str
CommodityTypeID_from_str(id) ==
    IF Len(id) > COMMODITY_TYPE_ID_LENGTH
    THEN Err(TooLongCommodityTypeID(id))
    ELSE LET id_array == ArrayString_from(id)
         IN IF id_array.kind = "Err"
            THEN Panic("unwrap on an Err value")
            ELSE Ok(CommodityTypeID_new(id_array.val))

\* Display for CommodityTypeID
CommodityTypeID_display(self) == ArrayString_display(self.id_array)

(***************************************************************************)
(* CommodityType: an id and an optional human readable name.               *)
(***************************************************************************)
\* CommodityType::new
CommodityType_new(id, name) == [id |-> id, name |-> name]

\* CommodityType::from_str: an empty name is no name
CommodityType_from_str(id, name) ==
    LET parsed == CommodityTypeID_from_str(id)
        name_option == IF name = <<>> THEN None ELSE Some(name)
    IN IF parsed.kind # "Ok" THEN parsed
       ELSE Ok(CommodityType_new(parsed.val, name_option))

\* the equality the derive would give: every field
CommodityType_eq_derived(self, other) ==
    self.id = other.id /\ self.name = other.name

\* PartialEq for CommodityType
CommodityType_eq(self, other) == self.id = other.id

\* Hash for str: the bytes, then the byte 0xff; state is what the hasher
\* has been fed so far
str_hash(self, state) == state \o self \o <<"0xff">>

\* derived Hash for CommodityTypeID: the ArrayString hashes as its str
CommodityTypeID_hash(self, state) ==
    str_hash(ArrayString_display(self.id_array), state)

\* Hash for CommodityType
CommodityType_hash(self, state) == CommodityTypeID_hash(self.id, state)

(***************************************************************************)
(* Commodity and its checked arithmetic.                                   *)
(***************************************************************************)
\* Commodity::new
Commodity_new(value, type_id) == [value |-> value, type_id |-> type_id]

\* CommodityError::IncompatableCommodity { this_commodity, other_commodity, reason }
IncompatableCommodity(this, other, reason) ==
    [error |-> "IncompatableCommodity", this_commodity |-> this,
     other_commodity |-> other, reason |-> reason]

\* Commodity::compatible_with
compatible_with(self, other) == self.type_id = other.type_id

\* check_commodity_type_compatible
check_commodity_type_compatible(this, other, reason) ==
    IF ~compatible_with(this, other)
    THEN Err(IncompatableCommodity(this, other, reason))
    ELSE Ok(<<>>)

\* Commodity::add reporting the operands of the failed check in the wrong order
Commodity_add_swapped_error(self, other) ==
    LET chk == check_commodity_type_compatible(other, self,
                   "cannot add commodities with different currencies")
    IN IF chk.kind = "Err" THEN chk
       ELSE Ok(Commodity_new(DecAdd(self.value, other.value), self.type_id))

\* Commodity::add
Commodity_add(self, other) ==
    LET chk == check_commodity_type_compatible(self, other,
                   "cannot add commodities with different currencies")
    IN IF chk.kind = "Err" THEN chk
       ELSE Ok(Commodity_new(DecAdd(self.value, other.value), self.type_id))

\* Commodity::sub with the operands of the subtraction exchanged
Commodity_sub_reversed(self, other) ==
    LET chk == check_commodity_type_compatible(self, other,
                   "cannot subtract commodities with different currencies")
    IN IF chk.kind = "Err" THEN chk
       ELSE Ok(Commodity_new(DecSub(other.value, self.value), self.type_id))

\* Commodity::sub
Commodity_sub(self, other) ==
    LET chk == check_commodity_type_compatible(self, other,
                   "cannot subtract commodities with different currencies")
    IN IF chk.kind = "Err" THEN chk
       ELSE Ok(Commodity_new(DecSub(self.value, other.value), self.type_id))

\* Commodity::neg that always yields a non-positive value
Commodity_neg_of_abs(self) == Commodity_new(DecNeg(DecAbs(self.value)), self.type_id)

\* Commodity::neg
Commodity_neg(self) == Commodity_new(DecNeg(self.value), self.type_id)

\* Commodity::abs
Commodity_abs(self) == Commodity_new(DecAbs(self.value), self.type_id)

\* Commodity::lt
Commodity_lt(self, other) ==
    LET chk == check_commodity_type_compatible(self, other,
                   "cannot compare commodities with different currencies")
    IN IF chk.kind = "Err" THEN chk ELSE Ok(DecLt(self.value, other.value))

\* Commodity::gt comparing with >= instead of >
Commodity_gt_or_equal(self, other) ==
    LET chk == check_commodity_type_compatible(self, other,
                   "cannot compare commodities with different currencies")
    IN IF chk.kind = "Err" THEN chk ELSE Ok(~DecLt(self.value, other.value))

\* Commodity::gt
Commodity_gt(self, other) ==
    LET chk == check_commodity_type_compatible(self, other,
                   "cannot compare commodities with different currencies")
    IN IF chk.kind = "Err" THEN chk ELSE Ok(DecGt(self.value, other.value))

\* an equality that compares the values only
Commodity_eq_value_only(self, other) == DecEq(self.value, other.value)

\* #[derive(PartialEq)] for Commodity: field by field
Commodity_eq(self, other) ==
    DecEq(self.value, other.value) /\ self.type_id = other.type_id

\* Commodity::eq_approx comparing the difference with < instead of <=
Commodity_eq_approx_strict(self, other, epsilon) ==
    IF other.type_id # self.type_id THEN FALSE
    ELSE LET diff == IF DecGt(self.value, other.value)
                     THEN DecSub(self.value, other.value)
                     ELSE DecSub(other.value, self.value)
         IN DecLt(diff, epsilon)

\* Commodity::eq_approx
Commodity_eq_approx(self, other, epsilon) ==
    IF other.type_id # self.type_id THEN FALSE
    ELSE LET diff == IF DecGt(self.value, other.value)
                     THEN DecSub(self.value, other.value)
                     ELSE DecSub(other.value, self.value)
         IN DecLe(diff, epsilon)

\* Decimal::cmp: the order of the numbers
Decimal_cmp(x, y) ==
    IF DecLt(x, y) THEN "Less" ELSE IF DecGt(x, y) THEN "Greater" ELSE "Equal"

\* Result::unwrap on Err(err): the call aborts with the error
UnwrapPanic(err) == [kind |-> "Panic", why |-> "unwrap on an Err value", err |-> err]

\* PartialOrd for Commodity: the check is unwrapped
Commodity_partial_cmp(self, other) ==
    LET chk == check_commodity_type_compatible(self, other,
                   "cannot compare commodities with different currencies")
    IN IF chk.kind = "Err" THEN UnwrapPanic(chk.err)
       ELSE Ok(Some(Decimal_cmp(self.value, other.value)))

\* an Ord for Commodity that compares the values without the check
Commodity_cmp_unchecked(self, other) ==
    Ok(Decimal_cmp(self.value, other.value))

\* Ord for Commodity: the check is unwrapped
Commodity_cmp(self, other) ==
    LET chk == check_commodity_type_compatible(self, other,
                   "cannot compare commodities with different currencies")
    IN IF chk.kind = "Err" THEN UnwrapPanic(chk.err)
       ELSE Ok(Decimal_cmp(self.value, other.value))

(***************************************************************************)
(* Textual forms: Display and from_str of a decimal, of an id and of a     *)
(* commodity.                                                              *)
(***************************************************************************)
Digits == <<"0", "1", "2", "3", "4", "5", "6", "7", "8", "9">>

IsDigit(c) == \E k \in 1..10 : Digits[k] = c

DigitValue(c) == (CHOOSE k \in 1..10 : Digits[k] = c) - 1

\* the decimal digits of n >= 0, at least one
RECURSIVE NatToString(_)
NatToString(n) ==
    IF n < 10 THEN <<Digits[n + 1]>>
    ELSE Append(NatToString(n \div 10), Digits[(n % 10) + 1])

\* s with zeros in front, to at least `width` characters
RECURSIVE PadZeros(_, _)
PadZeros(s, width) == IF Len(s) >= width THEN s ELSE PadZeros(<<"0">> \o s, width)

\* Display for Decimal: sign, integral digits, and after a point exactly
\* `scale` fractional digits (1.00 stays 1.00)
Decimal_to_string(d) ==
    LET ds == PadZeros(NatToString(Abs(d.m)), d.e + 1)
        int == SubSeq(ds, 1, Len(ds) - d.e)
        frac == SubSeq(ds, Len(ds) - d.e + 1, Len(ds))
    IN (IF d.m < 0 THEN <<"-">> ELSE <<>>)
       \o int
       \o (IF d.e > 0 THEN <<".">> \o frac ELSE <<>>)

\* the digits and the point of a decimal literal, left to right:
\* [ok, coeff, scale, digits, point]
RECURSIVE ParseDigits(_, _)
ParseDigits(s, acc) ==
    IF s = <<>> THEN acc
    ELSE LET c == Head(s)
         IN IF IsDigit(c)
            THEN ParseDigits(Tail(s),
                     [acc EXCEPT !.coeff = 10 * @ + DigitValue(c),
                                 !.digits = @ + 1,
                                 !.scale = IF acc.point THEN @ + 1 ELSE @])
            ELSE IF c = "." /\ ~acc.point
            THEN ParseDigits(Tail(s), [acc EXCEPT !.point = TRUE])
            ELSE [acc EXCEPT !.ok = FALSE]

\* Decimal::from_str: an optional sign, then digits with at most one point
\* and at least one digit; the number of digits after the point is the scale
Decimal_from_str(s) ==
    LET negative == s # <<>> /\ Head(s) = "-"
        signed == s # <<>> /\ Head(s) \in {"-", "+"}
        body == IF signed THEN Tail(s) ELSE s
        p == ParseDigits(body, [ok |-> TRUE, coeff |-> 0, scale |-> 0,
                                digits |-> 0, point |-> FALSE])
    IN IF ~p.ok \/ p.digits = 0
       THEN Err([error |-> "InvalidDecimal"])
       ELSE Ok(Decimal_new(IF negative THEN -p.coeff ELSE p.coeff, p.scale))

\* char::is_whitespace
IsWhitespace(c) == c = " "

\* str::split_whitespace: the maximal runs of characters that are not
\* whitespace, in order
RECURSIVE SplitRuns(_, _, _)
SplitRuns(s, cur, acc) ==
    IF s = <<>> THEN (IF cur = <<>> THEN acc ELSE Append(acc, cur))
    ELSE IF IsWhitespace(Head(s))
    THEN SplitRuns(Tail(s), <<>>, IF cur = <<>> THEN acc ELSE Append(acc, cur))
    ELSE SplitRuns(Tail(s), Append(cur, Head(s)), acc)

split_whitespace(s) == SplitRuns(s, <<>>, <<>>)

\* CommodityError::InvalidCommodityString(String)
InvalidCommodityString(s) == [error |-> "InvalidCommodityString", s |-> s]

\* Commodity::from_str; the unwrap of the decimal parse panics on its error,
\* the ? on the id parse returns its error
Commodity_from_str(commodity_string) ==
    LET elements == split_whitespace(commodity_string)
    IN IF Len(elements) # 2
       THEN Err(InvalidCommodityString(commodity_string))
       ELSE LET value == Decimal_from_str(elements[1])
                type_id == CommodityTypeID_from_str(elements[2])
            IN IF value.kind = "Err"
               THEN Panic("unwrap on an Err value")
               ELSE IF type_id.kind # "Ok" THEN type_id
               ELSE Ok(Commodity_new(value.val, type_id.val))

\* Display for Commodity: "{value} {type_id}"
Commodity_display(self) ==
    Decimal_to_string(self.value) \o <<" ">> \o CommodityTypeID_display(self.type_id)

(***************************************************************************)
(* i64 arithmetic.  An i64 is written m * 10^x, so that the integers near  *)
(* the ends of the i64 range can be named; I64_mul_pow10_overflows decides *)
(* from the digits whether i * 10^k leaves the range.                      *)
(***************************************************************************)
\* i64::MAX = 9223372036854775807 has 19 digits, the first nine 922337203
I64_MAX_DIGITS == 19
I64_MAX_LEADING == 922337203

\* the largest scale Decimal::new accepts
MAX_PRECISION == 28

\* the i64 m * 10^x
I64_new(m, x) == [m |-> m, x |-> x]

\* the integer an i64 stands for
I64_value(i) == i.m * Pow10(i.x)

\* the number of decimal digits of n > 0
RECURSIVE NumDigits(_)
NumDigits(n) == IF n < 10 THEN 1 ELSE 1 + NumDigits(n \div 10)

\* i * 10^k is outside the range of i64 (|i.m| has at most nine digits, so
\* it is never equal to the whole of i64::MAX or i64::MIN)
I64_mul_pow10_overflows(i, k) ==
    /\ i.m # 0
    /\ LET digits == NumDigits(Abs(i.m))
           total == digits + i.x + k
       IN \/ total > I64_MAX_DIGITS
          \/ /\ total = I64_MAX_DIGITS
             /\ Abs(i.m) > I64_MAX_LEADING \div Pow10(9 - digits)

\* the result of a build without overflow checks when the product that
\* forms a divisor wraps around: the value is divided by the wrapped
\* product, which is not the divisor meant
Wrapped == [kind |-> "Wrapped"]

\* a loop of divide_share that gives the units of the residue to the last
\* shares
Shares_suffix(i_abs, remainder_bits_abs, truncated, dp_divisor, sign, type_id) ==
    [commodity_index \in 1..i_abs |->
        Commodity_new(IF commodity_index > i_abs - remainder_bits_abs
                      THEN DecAdd(truncated, DecMul(dp_divisor, sign))
                      ELSE truncated,
                      type_id)]

\* the loop of divide_share: share commodity_index of 1..=i_abs takes one unit
\* of the residue when commodity_index <= remainder_bits_abs
Shares(i_abs, remainder_bits_abs, truncated, dp_divisor, sign, type_id) ==
    [commodity_index \in 1..i_abs |->
        Commodity_new(IF commodity_index <= remainder_bits_abs
                      THEN DecAdd(truncated, DecMul(dp_divisor, sign))
                      ELSE truncated,
                      type_id)]

\* a divide_share whose divisor is i units of 10^-dp: Decimal::new(i, dp)
Commodity_divide_share_unit_divisor(self, i, dp, overflow_checks) ==
    IF I64_mul_pow10_overflows(I64_new(1, 0), dp)
       \/ I64_mul_pow10_overflows(I64_new(i, 0), dp)
    THEN IF overflow_checks
         THEN Panic("attempt to multiply with overflow")
         ELSE Wrapped
    ELSE IF i = 0 THEN Panic("Division by zero")
    ELSE
    LET divisor == Decimal_new(i, dp)
        remainder == DecRem(self.value, divisor)
        divided == DecDiv(self.value, divisor)
        truncated == DecTrunc(divided)
        dp_divisor == Decimal_new(1, dp)
        remainder_bits == DecToI64(DecDiv(remainder, dp_divisor))
        remainder_bits_abs == Abs(remainder_bits)
        i_abs == Abs(i)
        sign == Decimal_new(Signum(remainder_bits) * Signum(i), 0)
    IN Ok(Shares(i_abs, remainder_bits_abs, truncated, dp_divisor, sign,
                 self.type_id))

\* Commodity::divide_share.  The divisor is Decimal::new(i * 10^dp, dp),
\* the power and the product formed in i64; overflow_checks tells which
\* build runs it.  The decimal layer panics on a zero divisor.
Commodity_divide_share(self, i, dp, overflow_checks) ==
    IF I64_mul_pow10_overflows(I64_new(1, 0), dp)
       \/ I64_mul_pow10_overflows(I64_new(i, 0), dp)
    THEN IF overflow_checks
         THEN Panic("attempt to multiply with overflow")
         ELSE Wrapped
    ELSE IF i = 0 THEN Panic("Division by zero")
    ELSE
    LET divisor == Decimal_new(i * Pow10(dp), dp)
        remainder == DecRem(self.value, divisor)
        divided == DecDiv(self.value, divisor)
        truncated == DecTrunc(divided)
        dp_divisor == Decimal_new(1, dp)
        remainder_bits == DecToI64(DecDiv(remainder, dp_divisor))
        remainder_bits_abs == Abs(remainder_bits)
        i_abs == Abs(i)
        sign == Decimal_new(Signum(remainder_bits) * Signum(i), 0)
    IN Ok(Shares(i_abs, remainder_bits_abs, truncated, dp_divisor, sign,
                 self.type_id))

(***************************************************************************)
(* div_i64.                                                                *)
(***************************************************************************)
\* Commodity::div_i64: the divisor is Decimal::new(i * 100, 2), the product
\* formed in i64; overflow_checks tells which build runs it
Commodity_div_i64(self, i, overflow_checks) ==
    IF I64_mul_pow10_overflows(i, 2)
    THEN IF overflow_checks
         THEN Panic("attempt to multiply with overflow")
         ELSE Wrapped
    ELSE LET decimal == Decimal_new(I64_value(i) * 100, 2)
         IN IF decimal.m = 0 THEN Panic("Division by zero")
            ELSE Ok(Commodity_new(DecDiv(self.value, decimal), self.type_id))

(***************************************************************************)
(* ExchangeRate (src/src/exchange_rate/mod.rs): an optional base type id   *)
(* and a map rates from type ids to decimals.  The two dates of the table  *)
(* are read by neither convert nor rate_between and are left out.          *)
(***************************************************************************)
\* ExchangeRateError::CommodityTypeNotPresent(CommodityTypeID)
CommodityTypeNotPresent(id) == [error |-> "CommodityTypeNotPresent", id |-> id]

\* ExchangeRateError::DivideOverflow(Decimal, Decimal)
DivideOverflow(x, y) == [error |-> "DivideOverflow", dividend |-> x, divisor |-> y]

\* Decimal::checked_div: no quotient for a zero divisor
Decimal_checked_div(x, y) == IF y.m = 0 THEN None ELSE Some(DecDiv(x, y))

\* the struct ExchangeRate; rates is a function on the ids that have a rate
ExchangeRate_new(base, rates) == [base |-> base, rates |-> rates]

\* ExchangeRate::get_rate
ExchangeRate_get_rate(self, commodity_type_id) ==
    IF commodity_type_id \in DOMAIN self.rates
    THEN Some(self.rates[commodity_type_id])
    ELSE None

\* a hop from the base that divides where the code multiplies
ExchangeRate_convert_from_base_dividing(rate, commodity, target_commodity_type) ==
    IF rate.m = 0 THEN Err(DivideOverflow(commodity.value, rate))
    ELSE Ok(Commodity_new(DecDiv(commodity.value, rate), target_commodity_type))

\* convert, the hop from the base: rate * value
ExchangeRate_convert_from_base(rate, commodity, target_commodity_type) ==
    Ok(Commodity_new(DecMul(rate, commodity.value), target_commodity_type))

\* a hop to the base that multiplies where the code divides
ExchangeRate_convert_to_base_multiplying(rate, commodity, target_commodity_type) ==
    Ok(Commodity_new(DecMul(commodity.value, rate), target_commodity_type))

\* a hop to the base that divides unchecked: a zero rate aborts
ExchangeRate_convert_to_base_unchecked(rate, commodity, target_commodity_type) ==
    IF rate.m = 0 THEN Panic("Division by zero")
    ELSE Ok(Commodity_new(DecDiv(commodity.value, rate), target_commodity_type))

\* convert, the hop to the base: value / rate, checked
ExchangeRate_convert_to_base(rate, commodity, target_commodity_type) ==
    LET div == Decimal_checked_div(commodity.value, rate)
    IN IF div.kind = "None"
       THEN Err(DivideOverflow(commodity.value, rate))
       ELSE Ok(Commodity_new(div.val, target_commodity_type))

\* a cross-rate path that looks the target up first
ExchangeRate_convert_cross_target_first(self, commodity, target_commodity_type) ==
    LET commodity_rate == ExchangeRate_get_rate(self, commodity.type_id)
        target_rate == ExchangeRate_get_rate(self, target_commodity_type)
    IN IF target_rate.kind = "None"
       THEN Err(CommodityTypeNotPresent(target_commodity_type))
       ELSE IF commodity_rate.kind = "None"
       THEN Err(CommodityTypeNotPresent(commodity.type_id))
       ELSE LET div == Decimal_checked_div(commodity.value, commodity_rate.val)
            IN IF div.kind = "None"
               THEN Err(DivideOverflow(commodity.value, commodity_rate.val))
               ELSE Ok(Commodity_new(DecMul(div.val, target_rate.val),
                                     target_commodity_type))

\* a cross-rate path that divides by the target's rate and multiplies by
\* the source's
ExchangeRate_convert_cross_swapped(self, commodity, target_commodity_type) ==
    LET commodity_rate == ExchangeRate_get_rate(self, commodity.type_id)
        target_rate == ExchangeRate_get_rate(self, target_commodity_type)
    IN IF commodity_rate.kind = "None"
       THEN Err(CommodityTypeNotPresent(commodity.type_id))
       ELSE IF target_rate.kind = "None"
       THEN Err(CommodityTypeNotPresent(target_commodity_type))
       ELSE LET div == Decimal_checked_div(commodity.value, target_rate.val)
            IN IF div.kind = "None"
               THEN Err(DivideOverflow(commodity.value, target_rate.val))
               ELSE Ok(Commodity_new(DecMul(div.val, commodity_rate.val),
                                     target_commodity_type))

\* a cross-rate path that stops at the quotient
ExchangeRate_convert_cross_no_target(self, commodity, target_commodity_type) ==
    LET commodity_rate == ExchangeRate_get_rate(self, commodity.type_id)
        target_rate == ExchangeRate_get_rate(self, target_commodity_type)
    IN IF commodity_rate.kind = "None"
       THEN Err(CommodityTypeNotPresent(commodity.type_id))
       ELSE IF target_rate.kind = "None"
       THEN Err(CommodityTypeNotPresent(target_commodity_type))
       ELSE LET div == Decimal_checked_div(commodity.value, commodity_rate.val)
            IN IF div.kind = "None"
               THEN Err(DivideOverflow(commodity.value, commodity_rate.val))
               ELSE Ok(Commodity_new(div.val, target_commodity_type))

\* convert, the cross-rate path: the source's rate is looked up first,
\* then the target's; (value / source rate) * target rate
ExchangeRate_convert_cross(self, commodity, target_commodity_type) ==
    LET commodity_rate == ExchangeRate_get_rate(self, commodity.type_id)
        target_rate == ExchangeRate_get_rate(self, target_commodity_type)
    IN IF commodity_rate.kind = "None"
       THEN Err(CommodityTypeNotPresent(commodity.type_id))
       ELSE IF target_rate.kind = "None"
       THEN Err(CommodityTypeNotPresent(target_commodity_type))
       ELSE LET div == Decimal_checked_div(commodity.value, commodity_rate.val)
            IN IF div.kind = "None"
               THEN Err(DivideOverflow(commodity.value, commodity_rate.val))
               ELSE Ok(Commodity_new(DecMul(div.val, target_rate.val),
                                     target_commodity_type))

\* a convert that reports the rate a hop through the base misses instead
\* of going on to the cross-rate path
ExchangeRate_convert_no_fall_through(self, commodity, target_commodity_type) ==
    LET has_base == self.base.kind = "Some"
        target_rate == ExchangeRate_get_rate(self, target_commodity_type)
        commodity_rate == ExchangeRate_get_rate(self, commodity.type_id)
    IN IF has_base /\ commodity.type_id = self.base.val
       THEN IF target_rate.kind = "Some"
            THEN ExchangeRate_convert_from_base(target_rate.val, commodity,
                                                target_commodity_type)
            ELSE Err(CommodityTypeNotPresent(target_commodity_type))
       ELSE IF has_base /\ target_commodity_type = self.base.val
       THEN IF commodity_rate.kind = "Some"
            THEN ExchangeRate_convert_to_base(commodity_rate.val, commodity,
                                              target_commodity_type)
            ELSE Err(CommodityTypeNotPresent(commodity.type_id))
       ELSE ExchangeRate_convert_cross(self, commodity, target_commodity_type)

\* a convert that tries the hop to the base before the hop from it
ExchangeRate_convert_to_base_first(self, commodity, target_commodity_type) ==
    LET has_base == self.base.kind = "Some"
        target_rate == ExchangeRate_get_rate(self, target_commodity_type)
        commodity_rate == ExchangeRate_get_rate(self, commodity.type_id)
    IN IF has_base /\ target_commodity_type = self.base.val
          /\ commodity_rate.kind = "Some"
       THEN ExchangeRate_convert_to_base(commodity_rate.val, commodity,
                                         target_commodity_type)
       ELSE IF has_base /\ commodity.type_id = self.base.val
               /\ target_rate.kind = "Some"
       THEN ExchangeRate_convert_from_base(target_rate.val, commodity,
                                           target_commodity_type)
       ELSE ExchangeRate_convert_cross(self, commodity, target_commodity_type)

\* ExchangeRate::convert: with a base, the hop from the base when the
\* commodity is of the base and the target has a rate, else the hop to the
\* base when the target is the base and the commodity's type has a rate;
\* in every other case the cross-rate path
ExchangeRate_convert(self, commodity, target_commodity_type) ==
    LET has_base == self.base.kind = "Some"
        target_rate == ExchangeRate_get_rate(self, target_commodity_type)
        commodity_rate == ExchangeRate_get_rate(self, commodity.type_id)
    IN IF has_base /\ commodity.type_id = self.base.val
          /\ target_rate.kind = "Some"
       THEN ExchangeRate_convert_from_base(target_rate.val, commodity,
                                           target_commodity_type)
       ELSE IF has_base /\ target_commodity_type = self.base.val
               /\ commodity_rate.kind = "Some"
       THEN ExchangeRate_convert_to_base(commodity_rate.val, commodity,
                                         target_commodity_type)
       ELSE ExchangeRate_convert_cross(self, commodity, target_commodity_type)

\* a rate_between whose cross rate is upside down
ExchangeRate_rate_between_inverted(self, from, to) ==
    LET has_base == self.base.kind = "Some"
        from_rate == ExchangeRate_get_rate(self, from)
        to_rate == ExchangeRate_get_rate(self, to)
        one == Decimal_new(1, 0)
    IN IF has_base /\ from = self.base.val /\ to_rate.kind = "Some"
       THEN Ok(Some(to_rate.val))
       ELSE IF has_base /\ to = self.base.val /\ from_rate.kind = "Some"
       THEN LET value == Decimal_checked_div(one, from_rate.val)
            IN IF value.kind = "None"
               THEN Err(DivideOverflow(one, from_rate.val))
               ELSE Ok(Some(value.val))
       ELSE IF from_rate.kind = "None" THEN Ok(None)
       ELSE IF to_rate.kind = "None" THEN Ok(None)
       ELSE LET value == Decimal_checked_div(from_rate.val, to_rate.val)
            IN IF value.kind = "None"
               THEN Err(DivideOverflow(from_rate.val, to_rate.val))
               ELSE Ok(Some(value.val))

\* a rate_between that reports a missing rate the way convert does
ExchangeRate_rate_between_not_present(self, from, to) ==
    LET has_base == self.base.kind = "Some"
        from_rate == ExchangeRate_get_rate(self, from)
        to_rate == ExchangeRate_get_rate(self, to)
        one == Decimal_new(1, 0)
    IN IF has_base /\ from = self.base.val /\ to_rate.kind = "Some"
       THEN Ok(Some(to_rate.val))
       ELSE IF has_base /\ to = self.base.val /\ from_rate.kind = "Some"
       THEN LET value == Decimal_checked_div(one, from_rate.val)
            IN IF value.kind = "None"
               THEN Err(DivideOverflow(one, from_rate.val))
               ELSE Ok(Some(value.val))
       ELSE IF from_rate.kind = "None" THEN Err(CommodityTypeNotPresent(from))
       ELSE IF to_rate.kind = "None" THEN Err(CommodityTypeNotPresent(to))
       ELSE LET value == Decimal_checked_div(to_rate.val, from_rate.val)
            IN IF value.kind = "None"
               THEN Err(DivideOverflow(to_rate.val, from_rate.val))
               ELSE Ok(Some(value.val))

\* ExchangeRate::rate_between: with a base, the rate of to when from is
\* the base, else 1 / the rate of from when to is the base; in every other
\* case the rate of to / the rate of from, and no rate when one is missing
ExchangeRate_rate_between(self, from, to) ==
    LET has_base == self.base.kind = "Some"
        from_rate == ExchangeRate_get_rate(self, from)
        to_rate == ExchangeRate_get_rate(self, to)
        one == Decimal_new(1, 0)
    IN IF has_base /\ from = self.base.val /\ to_rate.kind = "Some"
       THEN Ok(Some(to_rate.val))
       ELSE IF has_base /\ to = self.base.val /\ from_rate.kind = "Some"
       THEN LET value == Decimal_checked_div(one, from_rate.val)
            IN IF value.kind = "None"
               THEN Err(DivideOverflow(one, from_rate.val))
               ELSE Ok(Some(value.val))
       ELSE IF from_rate.kind = "None" THEN Ok(None)
       ELSE IF to_rate.kind = "None" THEN Ok(None)
       ELSE LET value == Decimal_checked_div(to_rate.val, from_rate.val)
            IN IF value.kind = "None"
               THEN Err(DivideOverflow(to_rate.val, from_rate.val))
               ELSE Ok(Some(value.val))

(***************************************************************************)
(* Inputs of the arithmetic specification.                                 *)
(***************************************************************************)
\* decimals m * 10^-e, and the integers written with trailing zeros (1.0, 2.0)
Decimals ==
    {Decimal_new(m, e) : m \in -MaxMant..MaxMant, e \in 0..MaxScale}
    \cup {Decimal_new(m * Pow10(e), e) : m \in -MaxMant..MaxMant, e \in 0..MaxScale}

TypeIds ==
    {CommodityTypeID_from_str(<<"A", "U", "D">>).val,
     CommodityTypeID_from_str(<<"U", "S", "D">>).val}

Commodities == {Commodity_new(v, t) : v \in Decimals, t \in TypeIds}

(***************************************************************************)
(* The arithmetic specification: a caller holding two commodities a and b  *)
(* applies the operations to them, some to the result of the one before.   *)
(***************************************************************************)
Init ==
    /\ a \in Commodities
    /\ b \in Commodities
    /\ op = "new"
    /\ arg = <<>>
    /\ res = None
    /\ prev = None
    /\ text = <<>>
    /\ exchange_rate = None

\* an operation on the inputs: its name and its result are recorded
Apply(name, result) ==
    /\ op' = name
    /\ res' = result
    /\ prev' = None
    /\ UNCHANGED <<a, b, text, exchange_rate>>

\* an operation that follows another: the earlier result is kept in prev
ApplyAfter(name, result) ==
    /\ op' = name
    /\ res' = result
    /\ prev' = res
    /\ UNCHANGED <<a, b, text, exchange_rate>>

DoAdd == arg' = <<>> /\ Apply("add", Commodity_add(a, b))

DoSub == arg' = <<>> /\ Apply("sub", Commodity_sub(a, b))

\* sub(add(a, b), b): the caller subtracts b from the sum it just got
DoSubAfterAdd ==
    /\ op = "add"
    /\ res.kind = "Ok"
    /\ arg' = <<>>
    /\ ApplyAfter("add_sub", Commodity_sub(res.val, b))

DoNeg == arg' = <<>> /\ Apply("neg", Ok(Commodity_neg(a)))

\* neg(neg(a))
DoNegAfterNeg ==
    /\ op = "neg"
    /\ arg' = <<>>
    /\ ApplyAfter("neg_neg", Ok(Commodity_neg(res.val)))

DoAbs == arg' = <<>> /\ Apply("abs", Ok(Commodity_abs(a)))

DoLt == arg' = <<>> /\ Apply("lt", Commodity_lt(a, b))

DoGt == arg' = <<>> /\ Apply("gt", Commodity_gt(a, b))

\* b.gt(a), right after a.lt(b)
DoGtSwappedAfterLt ==
    /\ op = "lt"
    /\ arg' = <<>>
    /\ ApplyAfter("lt_gt_swapped", Commodity_gt(b, a))

\* a.gt(b), right after a.lt(b)
DoGtAfterLt ==
    /\ op = "lt"
    /\ arg' = <<>>
    /\ ApplyAfter("lt_gt", Commodity_gt(a, b))

DoEq == arg' = <<>> /\ Apply("eq", Ok(Commodity_eq(a, b)))

DoEqApprox ==
    \E epsilon \in Decimals :
        /\ arg' = epsilon
        /\ Apply("eq_approx", Ok(Commodity_eq_approx(a, b, epsilon)))

DoPartialCmp ==
    arg' = <<>> /\ Apply("partial_cmp", Commodity_partial_cmp(a, b))

DoCmp == arg' = <<>> /\ Apply("cmp", Commodity_cmp(a, b))

Next ==
    \/ DoAdd
    \/ DoSub
    \/ DoSubAfterAdd
    \/ DoNeg
    \/ DoNegAfterNeg
    \/ DoAbs
    \/ DoLt
    \/ DoGt
    \/ DoGtSwappedAfterLt
    \/ DoGtAfterLt
    \/ DoEq
    \/ DoEqApprox
    \/ DoPartialCmp
    \/ DoCmp

Spec == Init /\ [][Next]_vars

(***************************************************************************)
(* The share specification: a caller holding a commodity a splits it once  *)
(* with divide_share(i, dp).                                               *)
(***************************************************************************)
ShareDecimals ==
    {Decimal_new(m, e) : m \in -MaxShareMant..MaxShareMant, e \in 0..MaxShareScale}

ShareCommodities == {Commodity_new(v, t) : v \in ShareDecimals, t \in TypeIds}

InitShare ==
    /\ a \in ShareCommodities
    /\ b = a
    /\ op = "new"
    /\ arg = <<>>
    /\ res = None
    /\ prev = None
    /\ text = <<>>
    /\ exchange_rate = None

\* the precisions 0 .. MaxDp, and the first one whose power of ten is no i64
SharePrecisions == 0..MaxDp \cup {I64_MAX_DIGITS}

DoDivideShare ==
    \E i \in -MaxShares..MaxShares, dp \in SharePrecisions,
       overflow_checks \in BOOLEAN :
        /\ op = "new"
        /\ arg' = [i |-> i, dp |-> dp]
        /\ Apply("divide_share",
                 Commodity_divide_share(a, i, dp, overflow_checks))

NextShare == DoDivideShare

SpecShare == InitShare /\ [][NextShare]_vars

(***************************************************************************)
(* The signed share specification: a caller splits a with                  *)
(* divide_share(i, dp), splits the negated commodity the same way, and     *)
(* splits a with divide_share(-i, dp).                                     *)
(***************************************************************************)
DoDivideShareSigns ==
    \E i \in -MaxShares..MaxShares, dp \in SharePrecisions,
       overflow_checks \in BOOLEAN :
        /\ op = "new"
        /\ arg' = [i |-> i, dp |-> dp]
        /\ Apply("divide_share_signs",
                 [of |-> Commodity_divide_share(a, i, dp, overflow_checks),
                  of_negated |->
                      Commodity_divide_share(Commodity_neg(a), i, dp,
                                             overflow_checks),
                  by_negated |->
                      Commodity_divide_share(a, -i, dp, overflow_checks)])

NextShareSigns == DoDivideShareSigns

SpecShareSigns == InitShare /\ [][NextShareSigns]_vars

(***************************************************************************)
(* The id specification: a caller parses a string as a commodity type id   *)
(* and displays the id it got.                                             *)
(***************************************************************************)
\* the strings over `alphabet` of length at most n
RECURSIVE Strings(_, _)
Strings(alphabet, n) ==
    IF n = 0 THEN {<<>>}
    ELSE LET shorter == Strings(alphabet, n - 1)
         IN shorter \cup {Append(s, c) : s \in shorter, c \in alphabet}

IdAlphabet == {"A", " "}

InitId ==
    /\ text \in Strings(IdAlphabet, MaxTextLen)
    /\ a = Commodity_new(Decimal_new(0, 0), CommodityTypeID_from_str(<<>>).val)
    /\ b = a
    /\ op = "new"
    /\ arg = <<>>
    /\ res = None
    /\ prev = None
    /\ exchange_rate = None

DoIdFromStr ==
    /\ op = "new"
    /\ arg' = <<>>
    /\ Apply("id_from_str", CommodityTypeID_from_str(text))

DoIdDisplay ==
    /\ op = "id_from_str"
    /\ res.kind = "Ok"
    /\ arg' = <<>>
    /\ ApplyAfter("id_display", Ok(CommodityTypeID_display(res.val)))

NextId == DoIdFromStr \/ DoIdDisplay

SpecId == InitId /\ [][NextId]_vars

(***************************************************************************)
(* The text specification: a caller displays a commodity a and parses the  *)
(* text it got.                                                            *)
(***************************************************************************)
TextDecimals ==
    {Decimal_new(m, e) : m \in -MaxTextMant..MaxTextMant, e \in 0..MaxScale}

\* the ids CommodityTypeID::from_str gives for the short strings
TextTypeIds ==
    {CommodityTypeID_from_str(s).val : s \in Strings(IdAlphabet, MaxIdLen)}

TextCommodities == {Commodity_new(v, t) : v \in TextDecimals, t \in TextTypeIds}

InitText ==
    /\ a \in TextCommodities
    /\ b = a
    /\ op = "new"
    /\ arg = <<>>
    /\ res = None
    /\ prev = None
    /\ text = <<>>
    /\ exchange_rate = None

DoDisplay ==
    /\ op = "new"
    /\ text' = Commodity_display(a)
    /\ op' = "display"
    /\ UNCHANGED <<a, b, arg, res, prev, exchange_rate>>

DoFromStr ==
    /\ op = "display"
    /\ arg' = <<>>
    /\ Apply("from_str", Commodity_from_str(text))

NextText == DoDisplay \/ DoFromStr

SpecText == InitText /\ [][NextText]_vars

(***************************************************************************)
(* The parsing specification: a caller parses a text it was given, any     *)
(* short text over the alphabet and the texts "1 AA..A" with an id of up   *)
(* to MaxTextLen characters.                                               *)
(***************************************************************************)
ParseAlphabet == {"1", ".", "A", " "}

Repeat(c, n) == [k \in 1..n |-> c]

ParseInputs ==
    Strings(ParseAlphabet, MaxParseLen)
    \cup {<<"1", " ">> \o Repeat("A", n) : n \in 0..MaxTextLen}

InitParse ==
    /\ text \in ParseInputs
    /\ a = Commodity_new(Decimal_new(0, 0), CommodityTypeID_from_str(<<>>).val)
    /\ b = a
    /\ op = "new"
    /\ arg = <<>>
    /\ res = None
    /\ prev = None
    /\ exchange_rate = None

DoParse ==
    /\ op = "new"
    /\ arg' = <<>>
    /\ Apply("parse", Commodity_from_str(text))

NextParse == DoParse

SpecParse == InitParse /\ [][NextParse]_vars

(***************************************************************************)
(* The type specification: a caller holding two commodity types a and b,   *)
(* made from short ids and names, compares them and hashes them.           *)
(***************************************************************************)
Names == Strings({"n"}, MaxNameLen)

CommodityTypes ==
    {CommodityType_from_str(id, name).val :
        id \in Strings(IdAlphabet, MaxIdLen), name \in Names}

InitType ==
    /\ a \in CommodityTypes
    /\ b \in CommodityTypes
    /\ op = "new"
    /\ arg = <<>>
    /\ res = None
    /\ prev = None
    /\ text = <<>>
    /\ exchange_rate = None

DoTypeEq == arg' = <<>> /\ Apply("type_eq", Ok(CommodityType_eq(a, b)))

\* both are fed to a fresh hasher
DoTypeHash ==
    /\ arg' = <<>>
    /\ Apply("type_hash",
             Ok(<<CommodityType_hash(a, <<>>), CommodityType_hash(b, <<>>)>>))

NextType == DoTypeEq \/ DoTypeHash

SpecType == InitType /\ [][NextType]_vars

(***************************************************************************)
(* The exchange specification: a caller holding a table of rates converts  *)
(* a commodity a to a target type and converts the result back, or asks    *)
(* the rate between two types and converts one unit between them.          *)
(***************************************************************************)
ExchangeTypeIds ==
    TypeIds \cup {CommodityTypeID_from_str(<<"N", "Z", "D">>).val}

\* the rates 0, 1, .. MaxRate
RateDecimals == {Decimal_new(m, 0) : m \in 0..MaxRate}

ExchangeValues ==
    {Decimal_new(m, e) : m \in -MaxMant..MaxMant, e \in 0..MaxScale}

ExchangeCommodities ==
    {Commodity_new(v, t) : v \in ExchangeValues, t \in ExchangeTypeIds}

\* every table: no base or one of the ids, and a rate for some of the ids
ExchangeRates ==
    {ExchangeRate_new(base, rates) :
        base \in {None} \cup {Some(id) : id \in ExchangeTypeIds},
        rates \in UNION {[D -> RateDecimals] : D \in SUBSET ExchangeTypeIds}}

InitExchange ==
    /\ exchange_rate \in ExchangeRates
    /\ a = Commodity_new(Decimal_new(0, 0), CommodityTypeID_from_str(<<>>).val)
    /\ b = a
    /\ op = "new"
    /\ arg = <<>>
    /\ res = None
    /\ prev = None
    /\ text = <<>>

DoConvert ==
    /\ op = "new"
    /\ \E commodity \in ExchangeCommodities, target \in ExchangeTypeIds :
          /\ a' = commodity
          /\ arg' = [target |-> target]
          /\ res' = ExchangeRate_convert(exchange_rate, commodity, target)
    /\ op' = "convert"
    /\ prev' = None
    /\ UNCHANGED <<b, text, exchange_rate>>

\* the commodity convert returned is converted to the type a has
DoConvertBack ==
    /\ op = "convert"
    /\ res.kind = "Ok"
    /\ arg' = arg
    /\ ApplyAfter("convert_back",
                  ExchangeRate_convert(exchange_rate, res.val, a.type_id))

DoRateBetween ==
    /\ op = "new"
    /\ \E from \in ExchangeTypeIds, to \in ExchangeTypeIds :
          /\ arg' = [from |-> from, to |-> to]
          /\ Apply("rate_between",
                   ExchangeRate_rate_between(exchange_rate, from, to))

\* one unit of from is converted to to
DoConvertUnit ==
    /\ op = "rate_between"
    /\ arg' = arg
    /\ ApplyAfter("convert_unit",
                  ExchangeRate_convert(exchange_rate,
                                       Commodity_new(Decimal_new(1, 0), arg.from),
                                       arg.to))

\* the conversion of a commodity to to in two steps, through via, beside
\* the conversion in one; the three types are pairwise distinct
DoConvertVia ==
    /\ op = "new"
    /\ \E commodity \in ExchangeCommodities,
          via \in ExchangeTypeIds, to \in ExchangeTypeIds :
          /\ commodity.type_id # via
          /\ commodity.type_id # to
          /\ via # to
          /\ a' = commodity
          /\ arg' = [via |-> via, to |-> to]
          /\ LET first == ExchangeRate_convert(exchange_rate, commodity, via)
             IN res' = [first |-> first,
                        second |-> IF first.kind = "Ok"
                                   THEN ExchangeRate_convert(exchange_rate,
                                                             first.val, to)
                                   ELSE None,
                        direct |-> ExchangeRate_convert(exchange_rate,
                                                        commodity, to)]
    /\ op' = "convert_via"
    /\ prev' = None
    /\ UNCHANGED <<b, text, exchange_rate>>

NextExchange ==
    \/ DoConvert
    \/ DoConvertBack
    \/ DoRateBetween
    \/ DoConvertUnit
    \/ DoConvertVia

SpecExchange == InitExchange /\ [][NextExchange]_vars

(***************************************************************************)
(* The division specification: a caller divides a commodity a by an i64,   *)
(* a small one or one of the powers of ten at the end of the i64 range.    *)
(***************************************************************************)
I64Inputs ==
    {I64_new(m, 0) : m \in -MaxDivisor..MaxDivisor}
    \cup {I64_new(m, x) : m \in {-1, 1},
                          x \in (I64_MAX_DIGITS - 2)..(I64_MAX_DIGITS - 1)}

InitDiv ==
    /\ a \in Commodities
    /\ b = a
    /\ op = "new"
    /\ arg = <<>>
    /\ res = None
    /\ prev = None
    /\ text = <<>>
    /\ exchange_rate = None

DoDivI64 ==
    /\ op = "new"
    /\ \E i \in I64Inputs, overflow_checks \in BOOLEAN :
          /\ arg' = [i |-> i, overflow_checks |-> overflow_checks]
          /\ Apply("div_i64", Commodity_div_i64(a, i, overflow_checks))

NextDiv == DoDivI64

SpecDiv == InitDiv /\ [][NextDiv]_vars

(***************************************************************************)
(* Numbers, for stating the properties: two decimals are compared as the   *)
(* rationals m / 10^e, by cross-multiplication.                            *)
(***************************************************************************)
SameNumber(x, y) == x.m * Pow10(y.e) = y.m * Pow10(x.e)

NumberLess(x, y) == x.m * Pow10(y.e) < y.m * Pow10(x.e)

\* z = x + y
IsSum(z, x, y) ==
    z.m * Pow10(x.e + y.e) = x.m * Pow10(z.e + y.e) + y.m * Pow10(z.e + x.e)

\* |x - y| <= w
DistanceAtMost(x, y, w) ==
    Abs(x.m * Pow10(y.e) - y.m * Pow10(x.e)) * Pow10(w.e) <= w.m * Pow10(x.e + y.e)

CompareReason == "cannot compare commodities with different currencies"

(***************************************************************************)
(* Properties of the arithmetic specification.                             *)
(***************************************************************************)
\* C3: add and sub of commodities with different type ids return the
\* IncompatableCommodity error carrying a, b and the operation's own reason,
\* never a commodity; with equal type ids add returns (a.value + b.value,
\* a.type_id) and sub returns (a.value - b.value, a.type_id).
C3_AddSubChecked ==
    /\ op = "add" =>
         IF a.type_id # b.type_id
         THEN res = Err([error |-> "IncompatableCommodity", this_commodity |-> a,
                         other_commodity |-> b,
                         reason |-> "cannot add commodities with different currencies"])
         ELSE /\ res.kind = "Ok"
              /\ IsSum(res.val.value, a.value, b.value)
              /\ res.val.type_id = a.type_id
    /\ op = "sub" =>
         IF a.type_id # b.type_id
         THEN res = Err([error |-> "IncompatableCommodity", this_commodity |-> a,
                         other_commodity |-> b,
                         reason |-> "cannot subtract commodities with different currencies"])
         ELSE /\ res.kind = "Ok"
              /\ IsSum(a.value, res.val.value, b.value)
              /\ res.val.type_id = a.type_id

\* an add of two commodities of different types, with values that could be added
C3_Witness ==
    /\ op = "add"
    /\ a.type_id # b.type_id
    /\ a.value.m # 0
    /\ a.value = b.value
    /\ res.kind = "Err"

\* C4: lt and gt of commodities with different type ids return the
\* IncompatableCommodity error carrying a, b and the reason naming the
\* comparison; with equal type ids lt is Ok(a.value < b.value) and gt is
\* Ok(a.value > b.value), a.lt(b) = b.gt(a), and lt and gt never both hold.
C4_LtGtChecked ==
    /\ op \in {"lt", "gt"} /\ a.type_id # b.type_id =>
         res = Err([error |-> "IncompatableCommodity", this_commodity |-> a,
                    other_commodity |-> b, reason |-> CompareReason])
    /\ op = "lt" /\ a.type_id = b.type_id => res = Ok(NumberLess(a.value, b.value))
    /\ op = "gt" /\ a.type_id = b.type_id => res = Ok(NumberLess(b.value, a.value))
    /\ op = "lt_gt_swapped" /\ a.type_id = b.type_id => res = prev
    /\ op = "lt_gt" /\ a.type_id = b.type_id =>
         /\ res.kind = "Ok" /\ prev.kind = "Ok"
         /\ ~(res.val /\ prev.val)

\* a.lt(b) then b.gt(a) on equal values written at different scales
C4_Witness ==
    /\ op = "lt_gt_swapped"
    /\ a.type_id = b.type_id
    /\ a.value # b.value
    /\ SameNumber(a.value, b.value)
    /\ res = Ok(FALSE)

\* C5: == on commodities is total: false for different type ids whatever the
\* values, and for equal type ids true exactly when the values are equal.
C5_EqTotal ==
    op = "eq" =>
        /\ res.kind = "Ok"
        /\ res.val = (a.type_id = b.type_id /\ SameNumber(a.value, b.value))

\* equal values, different type ids
C5_Witness ==
    /\ op = "eq"
    /\ a.type_id # b.type_id
    /\ SameNumber(a.value, b.value)
    /\ res = Ok(FALSE)

\* C6: eq_approx(a, b, epsilon) is true iff the type ids are equal and
\* |a.value - b.value| <= epsilon, for every epsilon (zero and negative too).
C6_EqApprox ==
    op = "eq_approx" =>
        res = Ok(a.type_id = b.type_id /\ DistanceAtMost(a.value, b.value, arg))

\* the boundary |a.value - b.value| = epsilon, epsilon > 0
C6_Witness ==
    /\ op = "eq_approx"
    /\ a.type_id = b.type_id
    /\ arg.m > 0
    /\ SameNumber(DecAbs(DecSub(a.value, b.value)), arg)
    /\ res = Ok(TRUE)

\* C7: for compatible a, b: add(a, b) has the type id of a, and
\* sub(add(a, b), b) succeeds with the value and the type id of a.
C7_AddSubInverse ==
    /\ op = "add" /\ a.type_id = b.type_id =>
         res.kind = "Ok" /\ res.val.type_id = a.type_id
    /\ op = "add_sub" =>
         /\ res.kind = "Ok"
         /\ SameNumber(res.val.value, a.value)
         /\ res.val.type_id = a.type_id

\* b was added and subtracted again, at a scale finer than that of a
C7_Witness ==
    /\ op = "add_sub"
    /\ b.value.m # 0
    /\ b.value.e > a.value.e
    /\ a.value.m # 0
    /\ res.kind = "Ok"

\* C8: neg and abs are total and keep the type id: neg(neg(a)) = a,
\* abs(a).value >= 0, abs(a).value is a.value when a.value >= 0 and -a.value
\* otherwise.
C8_NegAbs ==
    /\ op = "neg" =>
         /\ res.kind = "Ok"
         /\ IsSum(Decimal_new(0, 0), res.val.value, a.value)
         /\ res.val.type_id = a.type_id
    /\ op = "neg_neg" =>
         /\ res.kind = "Ok"
         /\ SameNumber(res.val.value, a.value)
         /\ res.val.type_id = a.type_id
    /\ op = "abs" =>
         /\ res.kind = "Ok"
         /\ res.val.value.m >= 0
         /\ a.value.m >= 0 => SameNumber(res.val.value, a.value)
         /\ a.value.m < 0 => IsSum(Decimal_new(0, 0), res.val.value, a.value)
         /\ res.val.type_id = a.type_id

\* abs of a negative value
C8_Witness ==
    /\ op = "abs"
    /\ a.value.m < 0
    /\ res.val.value.m > 0

\* the ordering of two numbers
OrderOf(x, y) ==
    IF NumberLess(x, y) THEN "Less"
    ELSE IF SameNumber(x, y) THEN "Equal" ELSE "Greater"

\* C26: cmp and partial_cmp never compare across types: for different type
\* ids they return no ordering and abort with the incompatibility error;
\* for equal type ids they return the ordering of the two values, which is
\* Equal exactly when a == b.
C26_CmpChecked ==
    op \in {"cmp", "partial_cmp"} =>
        IF a.type_id # b.type_id
        THEN /\ res.kind = "Panic"
             /\ res.err = [error |-> "IncompatableCommodity", this_commodity |-> a,
                           other_commodity |-> b, reason |-> CompareReason]
        ELSE /\ res = IF op = "cmp"
                      THEN Ok(OrderOf(a.value, b.value))
                      ELSE Ok(Some(OrderOf(a.value, b.value)))
             /\ (OrderOf(a.value, b.value) = "Equal") <=> Commodity_eq(a, b)

\* equal values of different types are not compared
C26_Witness ==
    /\ op = "cmp"
    /\ a.type_id # b.type_id
    /\ SameNumber(a.value, b.value)
    /\ res.kind = "Panic"

(***************************************************************************)
(* Properties of the share specification.                                  *)
(***************************************************************************)
\* the sum of the values of a sequence of commodities
RECURSIVE SumValues(_)
SumValues(shares) ==
    IF shares = <<>> THEN Decimal_new(0, 0)
    ELSE DecAdd(shares[1].value, SumValues(Tail(shares)))

\* the decimal has at most dp fractional digits
HasAtMostDigits(d, dp) ==
    dp >= d.e \/ (d.m * Pow10(dp)) % Pow10(d.e) = 0

\* the doc test of divide_share: 4.03 AUD split 4 ways at dp 2 is
\* 1.01, 1.01, 1.01, 1.00
DocTest_divide_share ==
    (op = "divide_share" /\ arg = [i |-> 4, dp |-> 2]
        /\ a.value = Decimal_new(403, 2)) =>
    /\ res.kind = "Ok"
    /\ Len(res.val) = 4
    /\ \A k \in 1..3 : SameNumber(res.val[k].value, Decimal_new(101, 2))
    /\ SameNumber(res.val[4].value, Decimal_new(100, 2))

\* C1: when the value has at most dp fractional digits, the shares of
\* divide_share(n, dp), n # 0, sum exactly to the value.
C1_ShareSumExact ==
    (op = "divide_share" /\ arg.i # 0 /\ HasAtMostDigits(a.value, arg.dp)) =>
        /\ res.kind = "Ok"
        /\ SameNumber(SumValues(res.val), a.value)

\* C2: divide_share(n, dp), n # 0, returns exactly |n| commodities, each
\* with the type id of the commodity that was split.
C2_ShareCount ==
    (op = "divide_share" /\ arg.i # 0) =>
        /\ res.kind = "Ok"
        /\ Len(res.val) = (IF arg.i < 0 THEN -arg.i ELSE arg.i)
        /\ \A k \in 1..Len(res.val) : res.val[k].type_id = a.type_id

(***************************************************************************)
(* Properties of the id and text specifications.                           *)
(***************************************************************************)
\* C9: parsing a type id from s fails iff s is longer than
\* COMMODITY_TYPE_ID_LENGTH = 8, with TooLongCommodityTypeID carrying s;
\* every s of length 0..8 gives an id whose display is s.
C9_IdLengthGuard ==
    /\ op = "id_from_str" =>
         IF Len(text) > 8
         THEN res = Err([error |-> "TooLongCommodityTypeID", id |-> text])
         ELSE res.kind = "Ok"
    /\ op = "id_display" => res = Ok(text)
    /\ (op = "id_from_str" /\ Len(text) <= 8) => ENABLED DoIdDisplay

\* an id of the full length 8, displayed
C9_Witness ==
    /\ op = "id_display"
    /\ Len(text) = 8
    /\ res = Ok(text)

\* the decimal is read back from its own text
DecimalRoundTrips(d) ==
    LET back == Decimal_from_str(Decimal_to_string(d))
    IN back.kind = "Ok" /\ SameNumber(back.val, d)

\* C10: parsing the display form of a commodity whose decimal round-trips
\* succeeds and returns an equal commodity, whatever the type id.
C10_RoundTrip ==
    (op = "from_str" /\ DecimalRoundTrips(a.value)) =>
        /\ res.kind = "Ok"
        /\ SameNumber(res.val.value, a.value)
        /\ res.val.type_id = a.type_id

(***************************************************************************)
(* Properties of the parsing specification.                                *)
(***************************************************************************)
\* C11: parsing a commodity accepts exactly the texts of two
\* whitespace-separated tokens, a decimal and an id of at most 8
\* characters; for every other text (wrong token count, first token not a
\* decimal, second token too long) it returns InvalidCommodityString with
\* the text, never aborting and never another error kind.
C11_ParseErrors ==
    op = "parse" =>
        LET elements == split_whitespace(text)
            accepted == /\ Len(elements) = 2
                        /\ Decimal_from_str(elements[1]).kind = "Ok"
                        /\ Len(elements[2]) <= 8
        IN IF accepted
           THEN res.kind = "Ok"
           ELSE res = Err(InvalidCommodityString(text))

(***************************************************************************)
(* Properties of the type specification.                                   *)
(***************************************************************************)
\* C12: two commodity types are equal iff their ids are equal, whatever
\* their names, and equal commodity types produce the same hash.
C12_TypeEqById ==
    /\ op = "type_eq" => res = Ok(a.id = b.id)
    /\ (op = "type_hash" /\ CommodityType_eq(a, b)) => res.val[1] = res.val[2]
    /\ (op = "type_hash" /\ a.id = b.id) => res.val[1] = res.val[2]

\* two types of one id and different names, one of them without a name,
\* hashed alike
C12_Witness ==
    /\ op = "type_hash"
    /\ a.id = b.id
    /\ a.name = None
    /\ b.name # None
    /\ res.val[1] = res.val[2]

(***************************************************************************)
(* Properties of the exchange specification.  HasRate and RateOf read the  *)
(* table of the state; a quotient of the decimal layer is one carried to   *)
(* MaxDivScale fractional digits, at most half a unit of the last digit    *)
(* away from the exact quotient.                                           *)
(***************************************************************************)
HasRate(id) == id \in DOMAIN exchange_rate.rates

RateOf(id) == exchange_rate.rates[id]

BaseIs(id) == exchange_rate.base = Some(id)

\* z = x * y
IsProduct(z, x, y) == z.m * Pow10(x.e + y.e) = x.m * y.m * Pow10(z.e)

\* the mantissa of d at MaxDivScale fractional digits
AtDivScale(d) == d.m * Pow10(MaxDivScale - d.e)

\* Q * 10^-MaxDivScale is x / y rounded: |Q * 10^-MaxDivScale * y - x| is at
\* most half of |y| * 10^-MaxDivScale
IsRoundedQuotient(Q, x, y) ==
    2 * Abs(Q * y.m * Pow10(x.e) - x.m * Pow10(MaxDivScale + y.e))
        <= Abs(y.m) * Pow10(x.e)

\* q is x / y as the decimal layer gives it
IsQuotient(q, x, y) ==
    q.e <= MaxDivScale /\ IsRoundedQuotient(AtDivScale(q), x, y)

\* x / y needs no rounding
ExactQuotient(x, y) ==
    (Abs(x.m) * Pow10(MaxDivScale + y.e)) % (Abs(y.m) * Pow10(x.e)) = 0

\* z is (x / y) * w: the quotient as the decimal layer gives it, times w
IsQuotientTimes(z, x, y, w) ==
    IF w.m = 0 THEN z.m = 0
    ELSE LET scaled == z.m * Pow10(MaxDivScale + w.e - z.e)
         IN /\ z.e <= MaxDivScale + w.e
            /\ scaled % Abs(w.m) = 0
            /\ IsRoundedQuotient(Signum(w.m) * (scaled \div Abs(w.m)), x, y)

\* C13: with base b, a commodity of type b and a target t that has a rate
\* (whether or not b has one, and also when t = b), convert returns the
\* value times the rate of t, as a commodity of type t.
C13_FromBase ==
    (op = "convert" /\ BaseIs(a.type_id) /\ HasRate(arg.target)) =>
        /\ res.kind = "Ok"
        /\ res.val.type_id = arg.target
        /\ IsProduct(res.val.value, a.value, RateOf(arg.target))

\* the base has a rate of its own and the commodity is converted to the base
C13_Witness ==
    /\ op = "convert"
    /\ BaseIs(a.type_id)
    /\ arg.target = a.type_id
    /\ HasRate(arg.target)
    /\ RateOf(arg.target) = Decimal_new(2, 0)
    /\ a.value = Decimal_new(1, 1)
    /\ res.kind = "Ok"

\* C14 as stated: with base b, for every commodity whose type x has a rate,
\* convert to b returns the value divided by the rate of x, or
\* DivideOverflow(value, rate) when the rate is zero.
C14_ToBase ==
    (op = "convert" /\ BaseIs(arg.target) /\ HasRate(a.type_id)) =>
        IF RateOf(a.type_id).m = 0
        THEN res = Err(DivideOverflow(a.value, RateOf(a.type_id)))
        ELSE /\ res.kind = "Ok"
             /\ res.val.type_id = arg.target
             /\ IsQuotient(res.val.value, a.value, RateOf(a.type_id))

\* C14, amended: the same for a commodity whose type x is not the base
\* itself (a commodity of the base whose type has a rate is multiplied by
\* it, C13).
C14_ToBaseFromOther ==
    (op = "convert" /\ BaseIs(arg.target) /\ HasRate(a.type_id)
        /\ a.type_id # arg.target) =>
        IF RateOf(a.type_id).m = 0
        THEN res = Err(DivideOverflow(a.value, RateOf(a.type_id)))
        ELSE /\ res.kind = "Ok"
             /\ res.val.type_id = arg.target
             /\ IsQuotient(res.val.value, a.value, RateOf(a.type_id))

\* a quotient that is rounded: 1 / 3 to the base
C14_Witness ==
    /\ op = "convert"
    /\ BaseIs(arg.target)
    /\ a.type_id # arg.target
    /\ HasRate(a.type_id)
    /\ RateOf(a.type_id) = Decimal_new(3, 0)
    /\ a.value = Decimal_new(1, 0)
    /\ res.kind = "Ok"
    /\ ~ExactQuotient(a.value, RateOf(a.type_id))

\* C15: without a base, or when neither the commodity's type nor the
\* target is the base, and both have a rate, convert returns
\* (value / rate of the type) * rate of the target as a commodity of the
\* target, or DivideOverflow(value, rate of the type) when that rate is zero.
C15_Cross ==
    (op = "convert" /\ ~BaseIs(a.type_id) /\ ~BaseIs(arg.target)
        /\ HasRate(a.type_id) /\ HasRate(arg.target)) =>
        IF RateOf(a.type_id).m = 0
        THEN res = Err(DivideOverflow(a.value, RateOf(a.type_id)))
        ELSE /\ res.kind = "Ok"
             /\ res.val.type_id = arg.target
             /\ IsQuotientTimes(res.val.value, a.value, RateOf(a.type_id),
                                RateOf(arg.target))

\* a table with a base, neither type being it, and a rounded quotient
C15_Witness ==
    /\ op = "convert"
    /\ exchange_rate.base # None
    /\ ~BaseIs(a.type_id)
    /\ ~BaseIs(arg.target)
    /\ a.type_id # arg.target
    /\ HasRate(a.type_id)
    /\ HasRate(arg.target)
    /\ RateOf(a.type_id) = Decimal_new(3, 0)
    /\ RateOf(arg.target) = Decimal_new(2, 0)
    /\ a.value = Decimal_new(1, 0)
    /\ res.kind = "Ok"

\* the call takes neither hop through the base
OnCrossPath ==
    /\ ~(BaseIs(a.type_id) /\ HasRate(arg.target))
    /\ ~(BaseIs(arg.target) /\ HasRate(a.type_id))

\* C16: on the cross-rate path the commodity's type is looked up first: if
\* it has no rate the error is CommodityTypeNotPresent of that type, even
\* when the target has none either; otherwise, if the target has no rate,
\* CommodityTypeNotPresent of the target.
C16_MissingRate ==
    (op = "convert" /\ OnCrossPath) =>
        /\ ~HasRate(a.type_id) =>
              res = Err(CommodityTypeNotPresent(a.type_id))
        /\ (HasRate(a.type_id) /\ ~HasRate(arg.target)) =>
              res = Err(CommodityTypeNotPresent(arg.target))

\* neither type has a rate and the source's is the one reported
C16_Witness ==
    /\ op = "convert"
    /\ OnCrossPath
    /\ a.type_id # arg.target
    /\ ~HasRate(a.type_id)
    /\ ~HasRate(arg.target)
    /\ res = Err(CommodityTypeNotPresent(a.type_id))

NoBaseBothPresent ==
    /\ exchange_rate.base = None
    /\ HasRate(a.type_id)
    /\ HasRate(arg.target)

RateFound == prev.kind = "Ok" /\ prev.val.kind = "Some"

\* rate_between took one of its two hops through the base
RateThroughBase ==
    \/ BaseIs(arg.from) /\ HasRate(arg.to)
    \/ BaseIs(arg.to) /\ HasRate(arg.from)

\* C18 as stated: whenever rate_between(from, to) returns a rate r,
\* converting one unit of from to to succeeds with a value equal to r.
C18_RateMirrorsConvert ==
    (op = "convert_unit" /\ RateFound) =>
        /\ res.kind = "Ok"
        /\ res.val.type_id = arg.to
        /\ SameNumber(res.val.value, prev.val.val)

\* C18, amended: whenever rate_between(from, to) returns a rate r,
\* converting one unit of from to to succeeds; the value equals r on the two
\* hops through the base (the rate of to, or 1 / the rate of from); on the
\* cross-rate path r is rate of to / rate of from rounded once, the value
\* is (1 / rate of from), rounded, times the rate of to, and the two differ
\* by no more than those roundings.
C18_RateMirrorsConvertRounded ==
    (op = "convert_unit" /\ RateFound) =>
        /\ res.kind = "Ok"
        /\ res.val.type_id = arg.to
        /\ (BaseIs(arg.from) /\ HasRate(arg.to)) =>
              /\ SameNumber(prev.val.val, RateOf(arg.to))
              /\ SameNumber(res.val.value, prev.val.val)
        /\ (~(BaseIs(arg.from) /\ HasRate(arg.to)) /\ RateThroughBase) =>
              /\ IsQuotient(prev.val.val, Decimal_new(1, 0), RateOf(arg.from))
              /\ SameNumber(res.val.value, prev.val.val)
        /\ ~RateThroughBase =>
              /\ IsQuotient(prev.val.val, RateOf(arg.to), RateOf(arg.from))
              /\ IsQuotientTimes(res.val.value, Decimal_new(1, 0),
                                 RateOf(arg.from), RateOf(arg.to))
              /\ 2 * Abs(AtDivScale(res.val.value) - AtDivScale(prev.val.val))
                    <= Abs(RateOf(arg.to).m) + 1

\* a unit converted on the cross-rate path to a value that is not the rate
C18_Witness ==
    /\ op = "convert_unit"
    /\ RateFound
    /\ ~RateThroughBase
    /\ RateOf(arg.from) = Decimal_new(3, 0)
    /\ RateOf(arg.to) = Decimal_new(2, 0)
    /\ res.kind = "Ok"
    /\ ~SameNumber(res.val.value, prev.val.val)

\* C19 as stated: rate_between returns Ok(None) if one of the two types
\* has no rate, returns a rate only when both have one, and never returns
\* CommodityTypeNotPresent.
C19_NoRate ==
    op = "rate_between" =>
        /\ (~HasRate(arg.from) \/ ~HasRate(arg.to)) => res = Ok(None)
        /\ (res.kind = "Ok" /\ res.val.kind = "Some") =>
              (HasRate(arg.from) /\ HasRate(arg.to))
        /\ res.kind = "Err" => res.err.error # "CommodityTypeNotPresent"

\* C19, amended: rate_between returns Ok(None) exactly when it takes
\* neither hop through the base (from is the base and to has a rate, or to
\* is the base and from has a rate) and one of the two types has no rate;
\* its only error is DivideOverflow, never CommodityTypeNotPresent.
C19_NoRateOffBase ==
    op = "rate_between" =>
        /\ res = Ok(None) <=>
              (~RateThroughBase /\ (~HasRate(arg.from) \/ ~HasRate(arg.to)))
        /\ res.kind \in {"Ok", "Err"}
        /\ res.kind = "Err" => res.err.error = "DivideOverflow"

\* a rate returned from a base that has no rate itself
C19_Witness ==
    /\ op = "rate_between"
    /\ BaseIs(arg.from)
    /\ ~HasRate(arg.from)
    /\ HasRate(arg.to)
    /\ res = Ok(Some(RateOf(arg.to)))

(***************************************************************************)
(* Properties of the division specification.                               *)
(***************************************************************************)
\* C20: for every commodity and every non-zero i64 n, div_i64(n) returns a
\* commodity of the same type id whose value is the value divided by n,
\* with no overflow in forming the divisor.
C20_DivI64 ==
    (op = "div_i64" /\ arg.i.m # 0) =>
        /\ res.kind = "Ok"
        /\ res.val.type_id = a.type_id
        /\ IsQuotient(res.val.value, a.value, Decimal_new(I64_value(arg.i), 0))

(***************************************************************************)
(* Further properties of the share specifications.  RefShare is the i-th   *)
(* share of the reference algorithm for a divisor D: q = trunc(value / D), *)
(* r = value - q * D, k = trunc(r / 10^-dp), and the share is              *)
(* q + sign(k) * sign(n) * 10^-dp for i <= |k| and q otherwise.            *)
(***************************************************************************)
RefQuotient(value, D) == TruncQuot(value.m * Pow10(D.e), D.m * Pow10(value.e))

RefRemainder(value, D) ==
    LET E == Max(value.e, D.e)
    IN Decimal_new(Rescale(value, E) - RefQuotient(value, D) * Rescale(D, E), E)

RefCount(value, D, dp) ==
    LET r == RefRemainder(value, D) IN TruncQuot(r.m * Pow10(dp), Pow10(r.e))

RefShare(value, n, dp, D, i) ==
    LET q == RefQuotient(value, D)
        k == RefCount(value, D, dp)
    IN IF i <= Abs(k)
       THEN Decimal_new(q * Pow10(dp) + Signum(k) * Signum(n), dp)
       ELSE Decimal_new(q, 0)

\* forming the divisor of divide_share leaves the i64 range
DivisorOverflows(n, dp) ==
    \/ I64_mul_pow10_overflows(I64_new(1, 0), dp)
    \/ I64_mul_pow10_overflows(I64_new(n, 0), dp)

ShareUnits(d, dp) == d.m * Pow10(dp - d.e)

\* C22: in every result of divide_share(n, dp) every share is a multiple
\* of 10^-dp, any two shares differ by at most one unit 10^-dp, and the
\* shares that carry the unit (those that are not the truncated quotient)
\* come before the shares that do not.
C22_UnitPrefix ==
    (op = "divide_share" /\ res.kind = "Ok") =>
        LET q == Decimal_new(RefQuotient(a.value, Decimal_new(arg.i, 0)), 0)
        IN /\ \A j \in 1..Len(res.val) :
                 /\ res.val[j].value.e <= arg.dp
                 /\ HasAtMostDigits(res.val[j].value, arg.dp)
           /\ \A j, k \in 1..Len(res.val) :
                 Abs(ShareUnits(res.val[j].value, arg.dp)
                     - ShareUnits(res.val[k].value, arg.dp)) <= 1
           /\ \A j, k \in 1..Len(res.val) :
                 (j < k /\ ~SameNumber(res.val[k].value, q)) =>
                     ~SameNumber(res.val[j].value, q)

\* a split with a negative count whose first shares carry the unit and
\* whose last does not
C22_Witness ==
    /\ op = "divide_share"
    /\ arg.i = -3
    /\ res.kind = "Ok"
    /\ Len(res.val) = 3
    /\ res.val[1].value = res.val[2].value
    /\ res.val[2].value # res.val[3].value

\* C23: for every value v, n # 0 and dp, splitting -v by n and splitting v
\* by -n each return, position by position, the negation of the shares of
\* splitting v by n.
C23_SignSymmetry ==
    (op = "divide_share_signs" /\ arg.i # 0) =>
        /\ res.of.kind = "Ok"
        /\ res.of_negated.kind = "Ok"
        /\ res.by_negated.kind = "Ok"
        /\ Len(res.of_negated.val) = Len(res.of.val)
        /\ Len(res.by_negated.val) = Len(res.of.val)
        /\ \A k \in 1..Len(res.of.val) :
              /\ SameNumber(res.of_negated.val[k].value,
                            DecNeg(res.of.val[k].value))
              /\ SameNumber(res.by_negated.val[k].value,
                            DecNeg(res.of.val[k].value))

\* C24: for every n # 0 and every dp up to the decimal layer's limit,
\* forming the divisor n * 10^dp does not overflow the i64 arithmetic and
\* divide_share returns its |n| shares.
C24_AnyPrecision ==
    (op = "divide_share" /\ arg.i # 0 /\ arg.dp <= MAX_PRECISION) =>
        /\ ~DivisorOverflows(arg.i, arg.dp)
        /\ res.kind = "Ok"
        /\ Len(res.val) = Abs(arg.i)

\* C29: in divide_share(n, dp) the residue count |remainder / 10^-dp| is
\* strictly less than the number of shares |n|, so the last share keeps
\* the unadjusted quotient.
C29_ResidueFits ==
    (op = "divide_share" /\ res.kind = "Ok") =>
        LET divisor == Decimal_new(arg.i * Pow10(arg.dp), arg.dp)
            remainder == DecRem(a.value, divisor)
            remainder_bits ==
                DecToI64(DecDiv(remainder, Decimal_new(1, arg.dp)))
        IN /\ Abs(remainder_bits) < Abs(arg.i)
           /\ SameNumber(res.val[Len(res.val)].value,
                         DecTrunc(DecDiv(a.value, divisor)))

(***************************************************************************)
(* Further properties of the exchange specification.                       *)
(***************************************************************************)
\* C25: with a base, when the hop through the base cannot be taken because
\* the rate it needs is missing (the commodity is of the base and the
\* target has no rate, or the target is the base and the commodity's type
\* has no rate), convert returns what the cross-rate path returns:
\* CommodityTypeNotPresent of the commodity's type if that has no rate,
\* else CommodityTypeNotPresent of the target.
C25_FallThrough ==
    (op = "convert"
        /\ \/ BaseIs(a.type_id) /\ ~HasRate(arg.target)
           \/ BaseIs(arg.target) /\ ~HasRate(a.type_id)) =>
        /\ res = ExchangeRate_convert_cross(exchange_rate, a, arg.target)
        /\ res = IF ~HasRate(a.type_id)
                 THEN Err(CommodityTypeNotPresent(a.type_id))
                 ELSE Err(CommodityTypeNotPresent(arg.target))

\* a commodity of a base without a rate, to a target without a rate: the
\* error names the base, not the target the hop looked for
C25_Witness ==
    /\ op = "convert"
    /\ BaseIs(a.type_id)
    /\ a.type_id # arg.target
    /\ ~HasRate(a.type_id)
    /\ ~HasRate(arg.target)
    /\ res = Err(CommodityTypeNotPresent(a.type_id))

\* the id is the base or has a rate that is not zero
Convertible(id) == BaseIs(id) \/ (HasRate(id) /\ RateOf(id).m # 0)

\* the base, if there is one, has no rate of its own
BaseWithoutRate ==
    exchange_rate.base.kind = "Some" => ~HasRate(exchange_rate.base.val)

\* C27: when the base (if any) has no rate of its own and the three
\* pairwise distinct types x, y, z are each the base or have a non-zero
\* rate, converting a commodity of x to y and on to z, and converting it
\* to z at once, both succeed and give the same value and the type z.
C27_PathIndependent ==
    (op = "convert_via" /\ BaseWithoutRate /\ Convertible(a.type_id)
        /\ Convertible(arg.via) /\ Convertible(arg.to)) =>
        /\ res.first.kind = "Ok"
        /\ res.second.kind = "Ok"
        /\ res.direct.kind = "Ok"
        /\ res.second.val.type_id = arg.to
        /\ res.direct.val.type_id = arg.to
        /\ SameNumber(res.second.val.value, res.direct.val.value)

\* a path through the base with rounded quotients on the way
C27_Witness ==
    /\ op = "convert_via"
    /\ BaseWithoutRate
    /\ BaseIs(arg.via)
    /\ HasRate(a.type_id)
    /\ HasRate(arg.to)
    /\ RateOf(a.type_id) = Decimal_new(3, 0)
    /\ RateOf(arg.to) = Decimal_new(2, 0)
    /\ a.value = Decimal_new(1, 0)
    /\ res.second.kind = "Ok"
    /\ res.direct.kind = "Ok"
    /\ res.second.val.value = res.direct.val.value

\* C28: for every table and every commodity whose type is the base or has
\* a non-zero rate, converting it to its own type succeeds and returns a
\* commodity of the same value and type, and rate_between of the type and
\* itself is 1.
C28_SelfIdentity ==
    /\ (op = "convert" /\ arg.target = a.type_id /\ Convertible(a.type_id)) =>
          /\ res.kind = "Ok"
          /\ res.val.type_id = a.type_id
          /\ SameNumber(res.val.value, a.value)
    /\ (op = "rate_between" /\ arg.from = arg.to /\ Convertible(arg.from)) =>
          /\ res.kind = "Ok"
          /\ res.val.kind = "Some"
          /\ SameNumber(res.val.val, Decimal_new(1, 0))

====
